---- MODULE Spec2Model ----
(***************************************************************************)
(* Task store, task managers and the POST / boundary of the A2A agents.    *)
(*                                                                         *)
(* Python objects are modelled with their identity: a Task object and a    *)
(* list object live on a heap (objs, lists) and are named by references,   *)
(* because on_send_task returns the stored Task itself and                 *)
(* Task.model_copy() is a shallow copy that shares the history list.       *)
(* The object (and the list) allocated by call p is named p; 0 is no       *)
(* object.  An optional value is <<>> (None) or <<v>>.                     *)
(*                                                                         *)
(* Every call is one coroutine.  `async with self.lock` and the awaited    *)
(* reasoner are the suspension points; the statements under the lock are   *)
(* separate steps, which allows every interleaving asyncio allows.         *)
(***************************************************************************)
EXTENDS Integers, Sequences, FiniteSets, TLC

\* ------------------------------------------------------------------ bounds
NumCalls == 2
MaxHistoryLength == 1

Calls == 1..NumCalls
TaskIds == {"t1", "t2"}
PartLists == {<<>>, <<"hi">>, <<"yo", "hi">>}
ReplyTexts == {"hello"}
Failures == {"reasoner failed"}
HistoryLengths == {<<>>} \cup {<<n>> : n \in 0..MaxHistoryLength}

NoRef == 0
None == <<>>

VARIABLES
    tasks,      \* InMemoryTaskManager.tasks: task id -> reference of a Task, or NoRef
    objs,       \* heap of Task objects: reference -> <<>> or <<[id, state, history]>>
    lists,      \* heap of history lists: reference -> <<>> or <<sequence of Message>>
    lock,       \* InMemoryTaskManager.lock (asyncio.Lock._locked)
    pc,         \* position of each call's coroutine
    call,       \* the call's kind and arguments
    task,       \* the local variable `task` of upsert_task / on_send_task
    reply,      \* how the awaited invoke ended: <<>> (pending), or <<[ok, text]>>
    ret,        \* value returned by an in-process upsert_task / on_get_task
    resp,       \* HTTP response of POST /
    invoked,    \* the reasoner's record of invoke(query, session_id) calls, per caller
    callLog,    \* per task id, the upsert_task calls in the order they were made
    serial,     \* per task id, whether no two upsert_task calls on it overlapped
    seen,       \* what on_get_task read from the store when it ran
    source,     \* the registry file as DiscoveryClient finds it
    dpc,        \* DiscoveryClient: "new", "ready", "sweeping", "returned", "raised"
    base_urls,  \* DiscoveryClient.base_urls
    sweeps,     \* list_agent_cards calls made so far
    cursor,     \* list_agent_cards: position of `for base in self.base_urls`
    cards,      \* list_agent_cards: the local list `cards`
    fetchLog,   \* the GETs of the current sweep: [url, outcome], in order
    listed,     \* what list_agent_cards returned last: <<>> or <<cards>>
    served,     \* the cards list_agent_cards returns to GreetingAgent at this moment
    rpc,        \* position of each call_agent coroutine
    req,        \* call_agent's argument agent_name
    matched,    \* call_agent's local variable `matched`: <<>> (None) or <<card>>
    used,       \* the connector whose send_task the call awaited: <<>> or <<connector>>
    connectors, \* GreetingAgent.connectors: card name -> <<>> or <<connector>>
    agent_cards,  \* the cards OrchestratorAgent was constructed with
    oconnectors,  \* OrchestratorAgent.connectors
    opc,        \* position of each _delegate_task coroutine
    oreq,       \* _delegate_task's argument agent_name
    oused,      \* the connector and session id of the awaited send_task
    osession,   \* tool_context.state: <<>> or <<session id>>
    logDir,     \* the directory logs/: "absent", "present" or "denied"
    logFile,    \* logs/rpc_logs.jsonl: "writable" or "denied"
    logLines,   \* the lines of logs/rpc_logs.jsonl
    lastLog,    \* how the last log_interaction ended: "none", "written" or an error
    cpc,        \* position of each A2AClient call
    creq,       \* the call: "send_task" or "get_task"
    cres        \* how the call ended: <<>> or <<[raised, value]>>

storeVars == <<tasks, objs, lists, lock, pc, call, task, reply, ret, resp, invoked,
               callLog, serial, seen>>
discoveryVars == <<source, dpc, base_urls, sweeps, cursor, cards, fetchLog, listed>>
routerVars == <<served, rpc, req, matched, used, connectors>>
orchestratorVars == <<agent_cards, oconnectors, opc, oreq, oused, osession>>
loggerVars == <<logDir, logFile, logLines, lastLog>>
clientVars == <<cpc, creq, cres>>
restVars == <<loggerVars, clientVars>>
peerVars == <<discoveryVars, routerVars, orchestratorVars, restVars>>
vars == <<storeVars, peerVars>>

\* ------------------------------------------------------------- data model
UserMessage(parts) == [role |-> "user", parts |-> parts]
AgentMessage(text) == [role |-> "agent", parts |-> <<text>>]

SUBMITTED == "submitted"
COMPLETED == "completed"

NewTask(id, state, history) == [id |-> id, state |-> state, history |-> history]

NoCall == [kind |-> "none", shape |-> "none", id |-> "none", parts |-> <<>>,
           historyLength |-> None]

\* the JSON-RPC id of the request of call p (the client draws uuid4().hex)
RequestId(p) == p

\* params.sessionId of the request of call p
SessionId(p) == <<"session", p>>

\* Python's seq[start:] for any integer start
SliceFrom(seq, start) ==
    LET n == Len(seq)
        s == IF start < 0 THEN (IF n + start < 0 THEN 0 ELSE n + start)
                          ELSE (IF start > n THEN n ELSE start)
    IN  SubSeq(seq, s + 1, n)

Obj(r) == objs[r][1]
HistoryOf(r) == lists[Obj(r).history][1]
Stored(t) == tasks[t] # NoRef
\* Task.model_dump() of the object r, read from the heap of lists ls
DumpIn(r, ls) == NewTask(Obj(r).id, Obj(r).state, ls[Obj(r).history][1])
Dump(r) == DumpIn(r, lists)

\* ------------------------------------------ agent cards and agent names
NumDelegations == 2
MaxCards == 2
Delegations == 1..NumDelegations

\* the characters of the strings whose letters matter
Chars(str) ==
    CASE str = "TellTimeAgent" -> <<"T", "e", "l", "l", "T", "i", "m", "e", "A", "g", "e", "n", "t">>
      [] str = "GreetingAgent" -> <<"G", "r", "e", "e", "t", "i", "n", "g", "A", "g", "e", "n", "t">>
      [] str = "Time" -> <<"T", "i", "m", "e">>
      [] str = "telltimeagent" -> <<"t", "e", "l", "l", "t", "i", "m", "e", "a", "g", "e", "n", "t">>
      [] str = "time" -> <<"t", "i", "m", "e">>
      [] str = "AGENT" -> <<"A", "G", "E", "N", "T">>
      [] str = "Weather" -> <<"W", "e", "a", "t", "h", "e", "r">>
      [] str = "" -> <<>>

CardNameSet == {"TellTimeAgent", "GreetingAgent", "Time"}

\* AgentCard: the fields call_agent and OrchestratorAgent read
AgentCards ==
    { [name |-> "TellTimeAgent", url |-> "u1"],
      [name |-> "GreetingAgent", url |-> "u2"],
      [name |-> "Time", url |-> "u3"],
      [name |-> "TellTimeAgent", url |-> "u4"] }

\* what a sweep can return: every peer listed once
CardLists ==
    {cs \in UNION {[1..n -> AgentCards] : n \in 0..MaxCards} :
        \A i, j \in DOMAIN cs : cs[i] = cs[j] => i = j}

\* the agent_name arguments the reasoner passes
RequestedNames == {"TellTimeAgent", "telltimeagent", "time", "AGENT", "Weather"}

\* AgentConnector(name, base_url, sender_agent), made by the call `by`
Connector(by, card, sender) ==
    [by |-> by, name |-> card.name, base_url |-> card.url, sender_agent |-> sender]

\* no call_agent is made
RouterUnused ==
    /\ served = <<>>
    /\ rpc = [d \in Delegations |-> "idle"]
    /\ req = [d \in Delegations |-> ""]
    /\ matched = [d \in Delegations |-> <<>>]
    /\ used = [d \in Delegations |-> <<>>]
    /\ connectors = [n \in CardNameSet |-> <<>>]

\* no OrchestratorAgent is constructed
OrchestratorUnused ==
    /\ agent_cards = <<>>
    /\ oconnectors = [n \in CardNameSet |-> <<>>]
    /\ opc = [d \in Delegations |-> "idle"]
    /\ oreq = [d \in Delegations |-> ""]
    /\ oused = [d \in Delegations |-> <<>>]
    /\ osession = <<>>

\* ------------------------------------------- the RPC log and the RPC client
MaxLogCalls == 2
NumRequests == 2
Requests == 1..NumRequests

\* no log_interaction is made
LoggerUnused ==
    /\ logDir = "absent"
    /\ logFile = "writable"
    /\ logLines = <<>>
    /\ lastLog = "none"

\* no A2AClient call is made
ClientUnused ==
    /\ cpc = [r \in Requests |-> "idle"]
    /\ creq = [r \in Requests |-> "none"]
    /\ cres = [r \in Requests |-> <<>>]

RestUnused == LoggerUnused /\ ClientUnused

\* the task server runs no discovery
DiscoveryUnused ==
    /\ source = [state |-> "missing", list |-> FALSE, items |-> <<>>]
    /\ dpc = "new"
    /\ base_urls = <<>>
    /\ sweeps = 0
    /\ cursor = 0
    /\ cards = <<>>
    /\ fetchLog = <<>>
    /\ listed = <<>>

Init ==
    /\ tasks = [t \in TaskIds |-> NoRef]
    /\ objs = [r \in Calls |-> <<>>]
    /\ lists = [r \in Calls |-> <<>>]
    /\ lock = FALSE
    /\ pc = [p \in Calls |-> "idle"]
    /\ call = [p \in Calls |-> NoCall]
    /\ task = [p \in Calls |-> NoRef]
    /\ reply = [p \in Calls |-> <<>>]
    /\ ret = [p \in Calls |-> <<>>]
    /\ resp = [p \in Calls |-> <<>>]
    /\ invoked = [p \in Calls |-> <<>>]
    /\ callLog = [t \in TaskIds |-> <<>>]
    /\ serial = [t \in TaskIds |-> TRUE]
    /\ seen = [p \in Calls |-> <<>>]
    /\ DiscoveryUnused
    /\ RouterUnused
    /\ OrchestratorUnused
    /\ RestUnused


\* ------------------------------------------------- the lock and the store
\* (mutation: the lock does not exclude)
CanAcquireAlways == TRUE

\* asyncio.Lock: `async with self.lock` goes on only when the lock is free
CanAcquire == ~lock

InUpsert(q, t) == call[q].id = t /\ pc[q] \in {"u_acq", "u_write"}

\* bookkeeping of a call to upsert_task(params) being made by p
EnterUpsert(p, t) ==
    /\ callLog' = [callLog EXCEPT ![t] = Append(@, p)]
    /\ serial' = [serial EXCEPT ![t] = @ /\ ~\E q \in Calls \ {p} : InUpsert(q, t)]

\* calls are numbered in the order they are made
Started(p) == IF p = 1 THEN TRUE ELSE pc[p - 1] # "idle"

\* a caller in this process calls upsert_task(params)
StartUpsert(p, t, parts) ==
    /\ pc[p] = "idle" /\ Started(p)
    /\ call' = [call EXCEPT ![p] = [NoCall EXCEPT !.kind = "upsert", !.id = t,
                                                  !.parts = parts]]
    /\ pc' = [pc EXCEPT ![p] = "u_acq"]
    /\ EnterUpsert(p, t)
    /\ UNCHANGED <<tasks, objs, lists, lock, task, reply, ret, resp, invoked, seen>>
    /\ UNCHANGED peerVars

\* upsert_task: async with self.lock: task = self.tasks.get(params.id)
UpsertAcquire(p) ==
    /\ pc[p] = "u_acq"
    /\ CanAcquire
    /\ lock' = TRUE
    /\ task' = [task EXCEPT ![p] = tasks[call[p].id]]
    /\ pc' = [pc EXCEPT ![p] = "u_write"]
    /\ UNCHANGED <<tasks, objs, lists, call, reply, ret, resp, invoked,
                   callLog, serial, seen>>
    /\ UNCHANGED peerVars

\* (mutation: the message is inserted at the front)
HistoryPrepend(history, message) == <<message>> \o history

\* task.history.append(params.message)
HistoryAppend(history, message) == Append(history, message)

\* (mutation: a new task starts with an empty history)
CreatedHistoryEmpty(message) == <<>>

\* history=[params.message]
CreatedHistory(message) == <<message>>

\* Task(id=params.id, status=TaskStatus(state=SUBMITTED), history=[params.message])
CreatedTask(id, listRef) == NewTask(id, SUBMITTED, listRef)

\* ------------------------------------------------------------ on_get_task
StartGet(p, t, n) ==
    /\ pc[p] = "idle" /\ Started(p)
    /\ call' = [call EXCEPT ![p] = [NoCall EXCEPT !.kind = "get", !.id = t,
                                                  !.historyLength = n]]
    /\ pc' = [pc EXCEPT ![p] = "g_acq"]
    /\ UNCHANGED <<tasks, objs, lists, lock, task, reply, ret, resp, invoked,
                   callLog, serial, seen>>
    /\ UNCHANGED peerVars

\* (mutation: on_get_task reads without taking the lock)
GetAcquireUnlocked(p) ==
    /\ pc[p] = "g_acq"
    /\ pc' = [pc EXCEPT ![p] = "g_body"]
    /\ UNCHANGED <<tasks, objs, lists, lock, call, task, reply, ret, resp, invoked,
                   callLog, serial, seen>>
    /\ UNCHANGED peerVars

\* on_get_task: async with self.lock
GetAcquire(p) ==
    /\ pc[p] = "g_acq"
    /\ CanAcquire
    /\ lock' = TRUE
    /\ pc' = [pc EXCEPT ![p] = "g_body"]
    /\ UNCHANGED <<tasks, objs, lists, call, task, reply, ret, resp, invoked,
                   callLog, serial, seen>>
    /\ UNCHANGED peerVars

\* (mutation: a missing id is entered in the map, as dict.setdefault would)
GetMissInserts(p) ==
    /\ ret' = [ret EXCEPT ![p] = <<[id |-> <<RequestId(p)>>, result |-> NoRef,
                                   error |-> <<[message |-> "Task not found"]>>]>>]
    /\ objs' = [objs EXCEPT ![p] = <<NewTask(call[p].id, SUBMITTED, p)>>]
    /\ lists' = [lists EXCEPT ![p] = <<<<>>>>]
    /\ tasks' = [tasks EXCEPT ![call[p].id] = p]

\* (mutation: the not-found response carries no error)
GetMissSilent(p) ==
    /\ ret' = [ret EXCEPT ![p] = <<[id |-> <<RequestId(p)>>, result |-> NoRef,
                                   error |-> None]>>]
    /\ UNCHANGED <<tasks, objs, lists>>

\* GetTaskResponse(id=request.id, error={"message": "Task not found"})
GetMiss(p) ==
    /\ ret' = [ret EXCEPT ![p] = <<[id |-> <<RequestId(p)>>, result |-> NoRef,
                                   error |-> <<[message |-> "Task not found"]>>]>>]
    /\ UNCHANGED <<tasks, objs, lists>>

\* (mutation: the slice is assigned to the stored task, not to the copy)
GetHitInPlace(p) ==
    LET r == tasks[call[p].id]
        n == call[p].historyLength
    IN  /\ objs' = [objs EXCEPT ![p] = <<Obj(r)>>]
        /\ lists' = IF n # None
                    THEN [lists EXCEPT ![Obj(r).history] =
                             <<SliceFrom(HistoryOf(r), -n[1])>>]
                    ELSE lists
        /\ tasks' = tasks
        /\ ret' = [ret EXCEPT ![p] = <<[id |-> <<RequestId(p)>>, result |-> p,
                                       error |-> None]>>]

\* task_copy = task.model_copy(): a new Task whose fields are the same objects;
\* history[-n:] is a new list, `task_copy.history = task_copy.history` is not
GetHit(p) ==
    LET r == tasks[call[p].id]
        n == call[p].historyLength
    IN  /\ IF n # None
           THEN /\ objs' = [objs EXCEPT ![p] = <<[Obj(r) EXCEPT !.history = p]>>]
                /\ lists' = [lists EXCEPT ![p] = <<SliceFrom(HistoryOf(r), -n[1])>>]
           ELSE /\ objs' = [objs EXCEPT ![p] = <<Obj(r)>>]
                /\ lists' = lists
        /\ tasks' = tasks
        /\ ret' = [ret EXCEPT ![p] = <<[id |-> <<RequestId(p)>>, result |-> p,
                                       error |-> None]>>]

\* on_get_task under the lock, then leave the lock and return
GetBody(p) ==
    /\ pc[p] = "g_body"
    /\ seen' = [seen EXCEPT ![p] = IF Stored(call[p].id)
                                   THEN <<Dump(tasks[call[p].id])>> ELSE <<>>]
    /\ IF Stored(call[p].id) THEN GetHit(p) ELSE GetMiss(p)
    /\ lock' = FALSE
    /\ pc' = [pc EXCEPT ![p] = "done"]
    /\ UNCHANGED <<call, task, reply, resp, invoked, callLog, serial>>
    /\ UNCHANGED peerVars


\* ------------------------------------------------------ POST / (A2AServer)
PostBodies ==
    {[NoCall EXCEPT !.kind = "post", !.shape = "malformed"],
     [NoCall EXCEPT !.kind = "post", !.shape = "unknown"]}
    \cup {[NoCall EXCEPT !.kind = "post", !.shape = "get", !.id = t] : t \in TaskIds}
    \cup {[NoCall EXCEPT !.kind = "post", !.shape = "send", !.id = t, !.parts = ps] :
            t \in TaskIds, ps \in PartLists}

\* (mutation: failures are answered with status 500)
ErrorResponse500(message) ==
    [status |-> 500, id |-> None, result |-> None,
     error |-> <<[kind |-> "InternalError", message |-> message]>>]

\* JSONResponse(JSONRPCResponse(id=None, error=InternalError(message=str(e))), 400)
ErrorResponse(message) ==
    [status |-> 400, id |-> None, result |-> None,
     error |-> <<[kind |-> "InternalError", message |-> message]>>]

\* _create_response(SendTaskResponse(id=request.id, result=task)): the task is
\* serialised when the handler returns
TaskResponse(p, dumped) ==
    [status |-> 200, id |-> <<RequestId(p)>>, result |-> <<dumped>>, error |-> None]

\* A2ARequest.validate_python(body): the request type of a recognised shape
ValidatePython(body) ==
    IF body.shape \in {"send", "get"} THEN <<body.shape>> ELSE <<>>

\* (mutation: every validated request is handed to on_send_task)
DispatchedAlways(request) == TRUE

\* isinstance(json_rpc, SendTaskRequest)
Dispatched(request) == request = "send"

\* a client posts body: _handle_request up to on_send_task -> upsert_task
HandleRequest(p, body) ==
    /\ pc[p] = "idle" /\ Started(p)
    /\ call' = [call EXCEPT ![p] = body]
    /\ LET json_rpc == ValidatePython(body)
       IN  IF body.shape = "malformed"
           THEN /\ resp' = [resp EXCEPT ![p] = <<ErrorResponse("json decode error")>>]
                /\ pc' = [pc EXCEPT ![p] = "done"]
                /\ UNCHANGED <<callLog, serial>>
           ELSE IF json_rpc = <<>>
           THEN /\ resp' = [resp EXCEPT ![p] = <<ErrorResponse("validation error")>>]
                /\ pc' = [pc EXCEPT ![p] = "done"]
                /\ UNCHANGED <<callLog, serial>>
           ELSE IF Dispatched(json_rpc[1])
           THEN /\ pc' = [pc EXCEPT ![p] = "u_acq"]
                /\ EnterUpsert(p, body.id)
                /\ resp' = resp
           ELSE /\ resp' = [resp EXCEPT ![p] =
                               <<ErrorResponse("Unsupported A2A method: GetTaskRequest")>>]
                /\ pc' = [pc EXCEPT ![p] = "done"]
                /\ UNCHANGED <<callLog, serial>>
    /\ UNCHANGED <<tasks, objs, lists, lock, task, reply, ret, invoked, seen>>
    /\ UNCHANGED peerVars

\* ----------------------------------------------------------- on_send_task
\* (mutation: the last part is taken)
GetLastText(parts) == parts[Len(parts)]

\* request.params.message.parts[0].text
GetUserText(parts) == parts[1]

\* on_send_task after upsert_task returned:
\* user_text = self._get_user_text(request); await self.agent.invoke(user_text, sessionId)
CallReasoner(p) ==
    IF call[p].parts = <<>>
    THEN /\ resp' = [resp EXCEPT ![p] = <<ErrorResponse("list index out of range")>>]
         /\ pc' = [pc EXCEPT ![p] = "done"]
         /\ invoked' = invoked
    ELSE /\ invoked' = [invoked EXCEPT ![p] =
                           Append(@, <<GetUserText(call[p].parts), SessionId(p)>>)]
         /\ pc' = [pc EXCEPT ![p] = "invoke"]
         /\ resp' = resp

\* (mutation: on_send_task keeps the lock from its upsert on, over the reasoner call)
LockKeptForSend(p) == call[p].kind = "post"

\* leaving `async with self.lock` of upsert_task releases the lock
LockAfterUpsert(p) == FALSE

\* upsert_task: create or append, leave the lock, return task to the caller
UpsertWrite(p) ==
    /\ pc[p] = "u_write"
    /\ LET m == UserMessage(call[p].parts) IN
       IF task[p] = NoRef
       THEN /\ objs' = [objs EXCEPT ![p] = <<CreatedTask(call[p].id, p)>>]
            /\ lists' = [lists EXCEPT ![p] = <<CreatedHistory(m)>>]
            /\ tasks' = [tasks EXCEPT ![call[p].id] = p]
            /\ task' = [task EXCEPT ![p] = p]
       ELSE /\ lists' = [lists EXCEPT ![Obj(task[p]).history] =
                            <<HistoryAppend(@[1], m)>>]
            /\ UNCHANGED <<objs, tasks, task>>
    /\ lock' = LockAfterUpsert(p)
    /\ IF call[p].kind = "upsert"
       THEN /\ ret' = [ret EXCEPT ![p] = <<[task |-> task'[p]]>>]
            /\ pc' = [pc EXCEPT ![p] = "done"]
            /\ UNCHANGED <<resp, invoked>>
       ELSE /\ ret' = ret
            /\ CallReasoner(p)
    /\ UNCHANGED <<call, reply, callLog, serial, seen>>
    /\ UNCHANGED peerVars

\* the reasoner returns a text
InvokeReturns(p, text) ==
    /\ pc[p] = "invoke"
    /\ reply' = [reply EXCEPT ![p] = <<[ok |-> TRUE, text |-> text]>>]
    /\ pc' = [pc EXCEPT ![p] = "r_acq"]
    /\ UNCHANGED <<tasks, objs, lists, lock, call, task, ret, resp, invoked,
                   callLog, serial, seen>>
    /\ UNCHANGED peerVars

\* (mutation: the failure is caught in on_send_task and sent as the reply)
InvokeRaisesCaught(p, failure) ==
    /\ pc[p] = "invoke"
    /\ reply' = [reply EXCEPT ![p] = <<[ok |-> FALSE, text |-> failure]>>]
    /\ pc' = [pc EXCEPT ![p] = "r_acq"]
    /\ UNCHANGED <<tasks, objs, lists, lock, call, task, ret, resp, invoked,
                   callLog, serial, seen>>
    /\ UNCHANGED peerVars

\* (mutation: a failing reasoner undoes the call's upsert: the task is dropped)
InvokeRaisesRollsBack(p, failure) ==
    /\ pc[p] = "invoke"
    /\ reply' = [reply EXCEPT ![p] = <<[ok |-> FALSE, text |-> failure]>>]
    /\ resp' = [resp EXCEPT ![p] = <<ErrorResponse(failure)>>]
    /\ pc' = [pc EXCEPT ![p] = "done"]
    /\ tasks' = [tasks EXCEPT ![call[p].id] = NoRef]
    /\ UNCHANGED <<objs, lists, lock, call, task, ret, invoked,
                   callLog, serial, seen>>
    /\ UNCHANGED peerVars

\* the reasoner raises: nothing in on_send_task catches, _handle_request does
InvokeRaises(p, failure) ==
    /\ pc[p] = "invoke"
    /\ reply' = [reply EXCEPT ![p] = <<[ok |-> FALSE, text |-> failure]>>]
    /\ resp' = [resp EXCEPT ![p] = <<ErrorResponse(failure)>>]
    /\ pc' = [pc EXCEPT ![p] = "done"]
    /\ UNCHANGED <<tasks, objs, lists, lock, call, task, ret, invoked,
                   callLog, serial, seen>>
    /\ UNCHANGED peerVars

\* (mutation: the reply is written without taking the lock)
ReplyWithoutLock(p) ==
    /\ pc[p] = "r_acq"
    /\ pc' = [pc EXCEPT ![p] = "r_status"]
    /\ UNCHANGED <<tasks, objs, lists, lock, call, task, reply, ret, resp, invoked,
                   callLog, serial, seen>>
    /\ UNCHANGED peerVars

\* on_send_task: async with self.lock
ReplyAcquire(p) ==
    /\ pc[p] = "r_acq"
    /\ CanAcquire
    /\ lock' = TRUE
    /\ pc' = [pc EXCEPT ![p] = "r_status"]
    /\ UNCHANGED <<tasks, objs, lists, call, task, reply, ret, resp, invoked,
                   callLog, serial, seen>>
    /\ UNCHANGED peerVars

\* task.status = TaskStatus(state=TaskState.COMPLETED)
ReplySetStatus(p) ==
    /\ pc[p] = "r_status"
    /\ objs' = [objs EXCEPT ![task[p]] = <<[@[1] EXCEPT !.state = COMPLETED]>>]
    /\ pc' = [pc EXCEPT ![p] = "r_append"]
    /\ UNCHANGED <<tasks, lists, lock, call, task, reply, ret, resp, invoked,
                   callLog, serial, seen>>
    /\ UNCHANGED peerVars

\* (mutation: the reply is inserted at the front of the history)
ReplyInsertFirst(p) ==
    /\ pc[p] = "r_append"
    /\ lists' = [lists EXCEPT ![Obj(task[p]).history] =
                    <<<<AgentMessage(reply[p][1].text)>> \o @[1]>>]
    /\ lock' = FALSE
    /\ resp' = [resp EXCEPT ![p] = <<TaskResponse(p, DumpIn(task[p], lists'))>>]
    /\ pc' = [pc EXCEPT ![p] = "done"]
    /\ UNCHANGED <<tasks, objs, call, task, reply, ret, invoked, callLog, serial, seen>>
    /\ UNCHANGED peerVars

\* task.history.append(reply_message); leave the lock; return the response
ReplyAppend(p) ==
    /\ pc[p] = "r_append"
    /\ lists' = [lists EXCEPT ![Obj(task[p]).history] =
                    <<HistoryAppend(@[1], AgentMessage(reply[p][1].text))>>]
    /\ lock' = FALSE
    /\ resp' = [resp EXCEPT ![p] = <<TaskResponse(p, DumpIn(task[p], lists'))>>]
    /\ pc' = [pc EXCEPT ![p] = "done"]
    /\ UNCHANGED <<tasks, objs, call, task, reply, ret, invoked, callLog, serial, seen>>
    /\ UNCHANGED peerVars

\* ----------------------------------------------------------- specification
Next ==
    \E p \in Calls :
        \/ \E t \in TaskIds, ps \in PartLists : StartUpsert(p, t, ps)
        \/ \E t \in TaskIds, n \in HistoryLengths : StartGet(p, t, n)
        \/ \E body \in PostBodies : HandleRequest(p, body)
        \/ UpsertAcquire(p)
        \/ UpsertWrite(p)
        \/ GetAcquire(p)
        \/ GetBody(p)
        \/ \E text \in ReplyTexts : InvokeReturns(p, text)
        \/ \E failure \in Failures : InvokeRaises(p, failure)
        \/ ReplyAcquire(p)
        \/ ReplySetStatus(p)
        \/ ReplyAppend(p)

Spec == Init /\ [][Next]_vars


\* ------------------------------------------------------- reading the model
IsSend(p) == call[p].kind = "post" /\ call[p].shape = "send"
CallsUpsert(p) == call[p].kind = "upsert" \/ IsSend(p)
\* p's call of upsert_task has returned
UpsertReturned(p) == CallsUpsert(p) /\ pc[p] \notin {"idle", "u_acq", "u_write"}
\* on_send_task of p has returned its response
SendReturned(p) == IsSend(p) /\ pc[p] = "done" /\ reply[p] # <<>> /\ reply[p][1].ok
\* p's reply is in the history
Replied(p) == SendReturned(p)
\* p has assigned the COMPLETED status
Completed(p) == IsSend(p) /\ pc[p] \in {"r_append", "done"} /\ reply[p] # <<>> /\ reply[p][1].ok
Quiescent(t) == \A q \in Calls : ~InUpsert(q, t)
StoredHistory(t) == IF Stored(t) THEN HistoryOf(tasks[t]) ELSE <<>>
Occurrences(h, m) == Cardinality({i \in 1..Len(h) : h[i] = m})
Range(f) == {f[i] : i \in DOMAIN f}
UpsertCallers(t) == Range(callLog[t])
MessageOf(p) == UserMessage(call[p].parts)
ReplyOf(p) == AgentMessage(reply[p][1].text)
IsUser(m) == m.role = "user"
IsAgent(m) == m.role = "agent"

\* C1: once every upsert_task call on an id has returned, whatever the
\* interleaving, the stored history holds one entry per call, that call's whole
\* message, and every call was given the one Task the map holds for the id.
C1_NoLostUpsert ==
    \A t \in TaskIds :
        Quiescent(t) =>
            LET users == SelectSeq(StoredHistory(t), IsUser) IN
            /\ Len(users) = Len(callLog[t])
            /\ \A p \in UpsertCallers(t) :
                   /\ Occurrences(users, MessageOf(p)) =
                          Cardinality({q \in UpsertCallers(t) : MessageOf(q) = MessageOf(p)})
                   /\ task[p] = tasks[t]
                   /\ call[p].kind = "upsert" => ret[p] = <<[task |-> tasks[t]]>>
            /\ Cardinality({r \in Calls : objs[r] # <<>> /\ r \in Range(task)
                                          /\ Obj(r).id = t}) =
                   IF callLog[t] = <<>> THEN 0 ELSE 1

\* two upsert_task calls on one id overlapped and both have returned
C1_Witness ==
    \E t \in TaskIds :
        /\ ~serial[t]
        /\ Quiescent(t)
        /\ Len(callLog[t]) = 2
        /\ Len(StoredHistory(t)) >= 2

\* C2: when the upsert_task calls on an id do not overlap, the first creates
\* the task (status submitted, history [m1]) and each later one appends to that
\* same task: before any reply is added the history is [m1, ..., mk] in call
\* order, under the same id.
C2_SerialUpsertOrder ==
    \A t \in TaskIds :
        (serial[t] /\ Quiescent(t) /\ ~\E q \in Calls : call[q].id = t /\ Completed(q)) =>
            IF callLog[t] = <<>>
            THEN ~Stored(t)
            ELSE /\ Stored(t)
                 /\ Dump(tasks[t]) =
                        NewTask(t, SUBMITTED,
                                [i \in 1..Len(callLog[t]) |-> MessageOf(callLog[t][i])])
                 /\ tasks[t] = callLog[t][1]
                 /\ \A p \in UpsertCallers(t) : task[p] = tasks[t]

\* two serialized upsert_task calls with different messages have returned
C2_Witness ==
    \E t \in TaskIds :
        /\ serial[t] /\ Quiescent(t)
        /\ Len(callLog[t]) = 2
        /\ MessageOf(callLog[t][1]) # MessageOf(callLog[t][2])
        /\ Len(StoredHistory(t)) = 2


\* on_get_task of p found the task and has returned its copy
GetHitReturned(p) == call[p].kind = "get" /\ pc[p] = "done" /\ ret[p][1].result # NoRef
\* on_get_task of p found no task and has returned
GetMissReturned(p) == call[p].kind = "get" /\ pc[p] = "done" /\ ret[p][1].result = NoRef
\* the step in which on_get_task of p runs and returns
GetReturns(p) == pc[p] = "g_body" /\ pc'[p] = "done"
\* the last k entries of h
LastN(h, k) == SubSeq(h, Len(h) - k + 1, Len(h))
Min(a, b) == IF a < b THEN a ELSE b

\* C3: on_get_task on an existing task returns the last min(n, len(history))
\* messages of the stored history, in order, for every historyLength n >= 0
\* (n = 0 included), and the whole history when historyLength is absent.
C3_GetReturnsLastN ==
    [][\A p \in Calls :
          (GetReturns(p) /\ Stored(call[p].id)) =>
              LET h == StoredHistory(call[p].id)
                  n == call[p].historyLength
              IN  /\ ret'[p][1].result # NoRef
                  /\ HistoryOf(ret[p][1].result)' =
                         IF n = None THEN h ELSE LastN(h, Min(n[1], Len(h)))]_vars

\* C4: what on_get_task returned is isolated from the store: no later step
\* changes the history or the status of a task copy already returned.
C4_ReturnedCopyIsolated ==
    [][\A p \in Calls : GetHitReturned(p) => Dump(ret[p][1].result)' = Dump(ret[p][1].result)]_vars

\* C5: on_get_task on an id without a task answers "Task not found" and leaves
\* the store as it was; an upsert_task that then finds the id still absent
\* creates the task (submitted, history of that call's message only).
C5_GetMissCreatesNothing ==
    [][\A p \in Calls :
          /\ (GetReturns(p) /\ ~Stored(call[p].id)) =>
                 /\ <<tasks, objs, lists>>' = <<tasks, objs, lists>>
                 /\ ret'[p] = <<[id |-> <<RequestId(p)>>, result |-> NoRef,
                                 error |-> <<[message |-> "Task not found"]>>]>>
          /\ (/\ pc[p] = "u_write" /\ pc'[p] # "u_write"
              /\ ~Stored(call[p].id)
              /\ \E q \in Calls : GetMissReturned(q) /\ call[q].id = call[p].id) =>
                 /\ Stored(call[p].id)'
                 /\ Dump(tasks[call[p].id])' =
                        NewTask(call[p].id, SUBMITTED, <<MessageOf(p)>>)]_vars

\* a get missed an id and an upsert_task then created the task on it
C5_Witness ==
    \E p, q \in Calls :
        /\ GetMissReturned(q)
        /\ call[p].id = call[q].id
        /\ UpsertReturned(p)
        /\ tasks[call[p].id] = p


\* C6: one on_send_task on a new id, alone on that id, whose reasoner returns r:
\* the response has the request's id and the task completed with history
\* [u, agent r]; the reasoner was invoked once, with the first text part of u
\* and the request's sessionId.
C6_SendTaskEndToEnd ==
    \A p \in Calls :
        (SendReturned(p) /\ callLog[call[p].id] = <<p>>) =>
            /\ resp[p] = <<[status |-> 200, id |-> <<RequestId(p)>>, error |-> None,
                            result |-> <<NewTask(call[p].id, COMPLETED,
                                                 <<MessageOf(p),
                                                   AgentMessage(reply[p][1].text)>>)>>]>>
            /\ invoked[p] = <<<<call[p].parts[1], SessionId(p)>>>>

\* a lone on_send_task with a message of two parts has returned
C6_Witness ==
    \E p \in Calls :
        /\ SendReturned(p)
        /\ callLog[call[p].id] = <<p>>
        /\ Len(call[p].parts) = 2
        /\ call[p].parts[1] # call[p].parts[2]

\* the steps that read or write the store under the lock
InCritical(q) == pc[q] \in {"u_write", "g_body", "r_status", "r_append"}

\* C7: while a call has set the status and not yet appended its reply, the lock
\* is held and no other call is at a step that reads or writes the store.
C7_ReplyAndStatusAtomic ==
    \A p \in Calls :
        pc[p] = "r_append" =>
            /\ lock
            /\ \A q \in Calls \ {p} : ~InCritical(q)

\* a call is between its status assignment and its append while another call
\* on the same id waits for the lock
C7_Witness ==
    \E p, q \in Calls :
        /\ p # q
        /\ pc[p] = "r_append"
        /\ call[q].id = call[p].id
        /\ pc[q] \in {"u_acq", "g_acq", "r_acq"}

\* the reasoner of p raised
InvokeFailed(p) == IsSend(p) /\ reply[p] # <<>> /\ ~reply[p][1].ok

\* C8: a failing invoke propagates: the boundary answers 400 with an
\* InternalError carrying the failure's message, and the call adds no agent
\* message and does not complete the task: agent messages and a completed
\* status come only from the calls whose reasoner returned.
C8_ReasonerFailurePropagates ==
    \A p \in Calls :
        InvokeFailed(p) =>
            LET t == call[p].id IN
            /\ pc[p] = "done"
            /\ resp[p][1].status = 400
            /\ resp[p][1].result = None
            /\ resp[p][1].error = <<[kind |-> "InternalError",
                                     message |-> reply[p][1].text]>>
            /\ Len(SelectSeq(StoredHistory(t), IsAgent)) =
                   Cardinality({q \in Calls \ {p} : call[q].id = t /\ Replied(q)})
            /\ Obj(tasks[t]).state = COMPLETED =>
                   \E q \in Calls \ {p} : call[q].id = t /\ Completed(q)

\* a reasoner failed for a task that this call created
C8_Witness ==
    \E p \in Calls :
        /\ InvokeFailed(p)
        /\ tasks[call[p].id] = p
        /\ Len(StoredHistory(call[p].id)) >= 1

\* C9: a well-formed get-task request posted to POST / is answered from the
\* task store: with the stored task, or with the "Task not found" envelope.
C9_GetTaskServed ==
    \A p \in Calls :
        (call[p].kind = "post" /\ call[p].shape = "get" /\ pc[p] = "done") =>
            \/ /\ resp[p][1].error # None
               /\ resp[p][1].error[1].message = "Task not found"
               /\ ~Stored(call[p].id)
            \/ /\ resp[p][1].error = None
               /\ resp[p][1].result # None
               /\ resp[p][1].result[1].id = call[p].id

\* the request of p was decoded: its body parsed and validated
Decoded(p) == call[p].kind = "post" /\ ValidatePython(call[p]) # <<>>

\* C10: every response of POST / to a decoded request carries that request's
\* id; a null id is given only when the request could not be decoded.
C10_ResponseEchoesId ==
    \A p \in Calls :
        (call[p].kind = "post" /\ pc[p] = "done") =>
            /\ Decoded(p) => resp[p][1].id = <<RequestId(p)>>
            /\ resp[p][1].id = None => ~Decoded(p)


\* the request of p was answered by POST /
Answered(p) == call[p].kind = "post" /\ pc[p] = "done"
\* str(e) of the exception that ended the request of p, if one did
FailureMessage(p) ==
    IF call[p].shape = "malformed" THEN <<"json decode error">>
    ELSE IF call[p].shape = "unknown" THEN <<"validation error">>
    ELSE IF call[p].shape = "get" THEN <<"Unsupported A2A method: GetTaskRequest">>
    ELSE IF call[p].parts = <<>> THEN <<"list index out of range">>
    ELSE IF InvokeFailed(p) THEN <<reply[p][1].text>>
    ELSE <<>>

\* C11: POST / always ends in a structured response: 200 with a result when
\* nothing failed, and 400 with an error carrying the exception's message when
\* anything failed (body, shape, task manager); an ended request has a response.
C11_StructuredResponse ==
    \A p \in Calls :
        Answered(p) =>
            /\ resp[p] # <<>>
            /\ IF FailureMessage(p) = <<>>
               THEN /\ resp[p][1].status = 200
                    /\ resp[p][1].result # None
               ELSE /\ resp[p][1].status = 400
                    /\ resp[p][1].error # None
                    /\ resp[p][1].error[1].message = FailureMessage(p)[1]

\* one request was answered 200 and another failed inside the task manager
C11_Witness ==
    \E p, q \in Calls :
        /\ Answered(p) /\ resp[p][1].status = 200
        /\ Answered(q) /\ resp[q][1].status = 400
        /\ IsSend(q)

\* C12: the error kind tells the causes apart: ParseError/InvalidRequest for a
\* body that cannot be decoded, UnsupportedMethod for an unrecognised shape,
\* InternalError only for an exception inside the task manager.
C12_ErrorKindsDistinct ==
    \A p \in Calls :
        (Answered(p) /\ FailureMessage(p) # <<>>) =>
            LET kind == resp[p][1].error[1].kind IN
            /\ call[p].shape = "malformed" => kind \in {"ParseError", "InvalidRequest"}
            /\ call[p].shape = "unknown" => kind = "UnsupportedMethod"
            /\ IsSend(p) => kind = "InternalError"

\* the step in which POST / answers p without dispatching its request
Rejects(p) == pc[p] = "idle" /\ call'[p].kind = "post" /\ call'[p].shape # "send"

\* C13: a request that fails validation or is not dispatched is answered at
\* once with an error and reaches no task manager: no upsert_task call, no
\* invoke, and the store (map, tasks, histories, lock) is as before.
C13_RejectedRequestTouchesNothing ==
    [][\A p \in Calls :
          Rejects(p) =>
              /\ <<tasks, objs, lists, lock, task, invoked, callLog, serial>>' =
                     <<tasks, objs, lists, lock, task, invoked, callLog, serial>>
              /\ pc'[p] = "done"
              /\ resp'[p][1].status = 400]_vars

\* a request was rejected while the store held a task
C13_Witness ==
    \E p \in Calls :
        /\ Answered(p) /\ ~IsSend(p)
        /\ call[p].shape = "get"
        /\ Stored(call[p].id)
        /\ task[p] = NoRef /\ invoked[p] = <<>>

\* C14: every envelope carries exactly one of result and error: on_get_task a
\* result for a known id and the "Task not found" error for an unknown one, a
\* returned on_send_task a result, a boundary failure an error.
C14_ResultXorError ==
    \A p \in Calls :
        /\ GetHitReturned(p) => ret[p][1].error = None
        /\ GetMissReturned(p) =>
               ret[p][1].error = <<[message |-> "Task not found"]>>
        /\ (call[p].kind = "get" /\ pc[p] = "done") =>
               (ret[p][1].result = NoRef) # (ret[p][1].error = None)
        /\ Answered(p) =>
               /\ (resp[p][1].result = None) # (resp[p][1].error = None)
               /\ SendReturned(p) => resp[p][1].error = None
               /\ FailureMessage(p) # <<>> => resp[p][1].result = None

\* a get missed, and a send was answered with its task
C14_Witness ==
    \E p, q \in Calls : GetMissReturned(p) /\ SendReturned(q)


\* --------------------------------------------- DiscoveryClient (discovery.py)
MaxRegistry == 2
MaxSweeps == 2

\* base URLs as character sequences: two of them name the same endpoint
BaseUrls == {<<"a">>, <<"a", "/">>, <<"b">>}
CardNames == {"A", "B"}
FetchFailures == {"network", "timeout", "status", "schema"}

UrlLists == UNION {[1..n -> BaseUrls] : n \in 0..MaxRegistry}

\* what open(self.registry_file) and json.load(f) can find
Sources ==
    {[state |-> st, list |-> FALSE, items |-> <<>>] :
        st \in {"missing", "unreadable", "invalid"}}
    \cup {[state |-> "json", list |-> FALSE, items |-> <<>>]}
    \cup {[state |-> "json", list |-> TRUE, items |-> us] : us \in UrlLists}

\* str.rstrip("/")
RStrip(str) ==
    LET keep == {i \in 1..Len(str) : str[i] # "/"}
        last == IF keep = {} THEN 0 ELSE CHOOSE i \in keep : \A j \in keep : j <= i
    IN  SubSeq(str, 1, last)

\* base.rstrip("/") + "/.well-known/agent.json"
WellKnown(base) == RStrip(base) \o <<"/.well-known/agent.json">>

\* (mutation: content that is no list is returned as it is)
LoadRegistryUnchecked(src) ==
    IF src.state = "missing" THEN [raised |-> FALSE, urls |-> <<>>]
    ELSE IF src.state = "unreadable" THEN [raised |-> TRUE, urls |-> <<>>]
    ELSE IF src.state = "invalid" THEN [raised |-> FALSE, urls |-> <<>>]
    ELSE IF ~src.list THEN [raised |-> FALSE, urls |-> <<"not a list">>]
    ELSE [raised |-> FALSE, urls |-> src.items]

\* _load_registry: FileNotFoundError, JSONDecodeError and ValueError give [];
\* any other OSError of open() is not caught
LoadRegistry(src) ==
    IF src.state = "missing" THEN [raised |-> FALSE, urls |-> <<>>]
    ELSE IF src.state = "unreadable" THEN [raised |-> TRUE, urls |-> <<>>]
    ELSE IF src.state = "invalid" THEN [raised |-> FALSE, urls |-> <<>>]
    ELSE IF ~src.list THEN [raised |-> FALSE, urls |-> <<>>]
    ELSE [raised |-> FALSE, urls |-> src.items]

\* DiscoveryClient.__init__: self.base_urls = self._load_registry()
Construct ==
    /\ dpc = "new"
    /\ LET loaded == LoadRegistry(source) IN
       /\ dpc' = IF loaded.raised THEN "raised" ELSE "ready"
       /\ base_urls' = loaded.urls
    /\ UNCHANGED <<source, sweeps, cursor, cards, fetchLog, listed, storeVars, routerVars, orchestratorVars, restVars>>

\* list_agent_cards is called: cards = []
StartSweep ==
    /\ dpc \in {"ready", "returned"}
    /\ sweeps < MaxSweeps
    /\ sweeps' = sweeps + 1
    /\ cards' = <<>>
    /\ cursor' = 1
    /\ fetchLog' = <<>>
    /\ dpc' = "sweeping"
    /\ UNCHANGED <<source, base_urls, listed, storeVars, routerVars, orchestratorVars, restVars>>

\* AgentCard.model_validate(response.json())
Card(name, base) == [name |-> name, url |-> RStrip(base)]

\* the GET of the current entry succeeds and its body is a valid card
FetchSucceeds(name) ==
    /\ dpc = "sweeping"
    /\ cursor <= Len(base_urls)
    /\ LET base == base_urls[cursor] IN
       /\ cards' = Append(cards, Card(name, base))
       /\ fetchLog' = Append(fetchLog, [url |-> WellKnown(base), outcome |-> "ok",
                                        name |-> name])
    /\ cursor' = cursor + 1
    /\ UNCHANGED <<source, dpc, base_urls, sweeps, listed, storeVars, routerVars, orchestratorVars, restVars>>

\* (mutation: a failing entry ends the sweep with what was collected so far)
FetchFailsEndsSweep(why) ==
    /\ dpc = "sweeping"
    /\ cursor <= Len(base_urls)
    /\ fetchLog' = Append(fetchLog, [url |-> WellKnown(base_urls[cursor]),
                                     outcome |-> why, name |-> "none"])
    /\ cursor' = Len(base_urls) + 1
    /\ UNCHANGED <<source, dpc, base_urls, sweeps, cards, listed, storeVars, routerVars, orchestratorVars, restVars>>

\* the GET, raise_for_status or model_validate raise: except Exception, go on
FetchFails(why) ==
    /\ dpc = "sweeping"
    /\ cursor <= Len(base_urls)
    /\ fetchLog' = Append(fetchLog, [url |-> WellKnown(base_urls[cursor]),
                                     outcome |-> why, name |-> "none"])
    /\ cursor' = cursor + 1
    /\ UNCHANGED <<source, dpc, base_urls, sweeps, cards, listed, storeVars, routerVars, orchestratorVars, restVars>>

\* the loop is over: return cards
SweepReturns ==
    /\ dpc = "sweeping"
    /\ cursor > Len(base_urls)
    /\ listed' = <<cards>>
    /\ dpc' = "returned"
    /\ UNCHANGED <<source, base_urls, sweeps, cursor, cards, fetchLog, storeVars, routerVars, orchestratorVars, restVars>>

StoreUnused ==
    /\ tasks = [t \in TaskIds |-> NoRef]
    /\ objs = [r \in Calls |-> <<>>]
    /\ lists = [r \in Calls |-> <<>>]
    /\ lock = FALSE
    /\ pc = [p \in Calls |-> "idle"]
    /\ call = [p \in Calls |-> NoCall]
    /\ task = [p \in Calls |-> NoRef]
    /\ reply = [p \in Calls |-> <<>>]
    /\ ret = [p \in Calls |-> <<>>]
    /\ resp = [p \in Calls |-> <<>>]
    /\ invoked = [p \in Calls |-> <<>>]
    /\ callLog = [t \in TaskIds |-> <<>>]
    /\ serial = [t \in TaskIds |-> TRUE]
    /\ seen = [p \in Calls |-> <<>>]

InitDiscovery ==
    /\ StoreUnused
    /\ RestUnused
    /\ RouterUnused
    /\ OrchestratorUnused
    /\ source \in Sources
    /\ dpc = "new"
    /\ base_urls = <<>>
    /\ sweeps = 0
    /\ cursor = 0
    /\ cards = <<>>
    /\ fetchLog = <<>>
    /\ listed = <<>>

NextDiscovery ==
    \/ Construct
    \/ StartSweep
    \/ \E name \in CardNames : FetchSucceeds(name)
    \/ \E why \in FetchFailures : FetchFails(why)
    \/ SweepReturns

SpecDiscovery == InitDiscovery /\ [][NextDiscovery]_vars

\* the cards of the successful GETs of a log, in the log's order
CardsOf(log, urls) ==
    LET ok == {i \in 1..Len(log) : log[i].outcome = "ok"}
        Rank(i) == Cardinality({j \in ok : j <= i})
    IN  [k \in 1..Cardinality(ok) |->
            LET i == CHOOSE j \in ok : Rank(j) = k IN Card(log[i].name, urls[i])]

\* C15: a sweep never raises; it returns the cards of exactly the entries whose
\* GET and validation succeeded, in registry order, one card per listing of a
\* URL; a failing entry changes nothing for the entries around it.
C15_SweepSkipsFailures ==
    /\ dpc = "raised" => sweeps = 0
    /\ dpc = "returned" =>
           /\ Len(fetchLog) = Len(base_urls)
           /\ \A i \in 1..Len(base_urls) : fetchLog[i].url = WellKnown(base_urls[i])
           /\ listed = <<CardsOf(fetchLog, base_urls)>>

\* a sweep returned the card of an entry that follows a failing one
C15_Witness ==
    /\ dpc = "returned"
    /\ Len(base_urls) = 2
    /\ fetchLog[1].outcome # "ok"
    /\ fetchLog[2].outcome = "ok"
    /\ Len(listed[1]) = 1

UpperCase == <<"A", "E", "G", "N", "T", "W">>
LowerCase == <<"a", "e", "g", "n", "t", "w">>

\* str.lower(), character by character
LowerChar(c) ==
    IF \E i \in 1..Len(UpperCase) : UpperCase[i] = c
    THEN LowerCase[CHOOSE i \in 1..Len(UpperCase) : UpperCase[i] = c]
    ELSE c
Strings == CardNameSet \cup RequestedNames \cup {""}
LowerTable == [str \in Strings |-> [i \in 1..Len(Chars(str)) |-> LowerChar(Chars(str)[i])]]
Lower(str) == LowerTable[str]

\* Python's `sub in str`
Contains(sub, str) ==
    \E i \in 0..(Len(str) - Len(sub)) : SubSeq(str, i + 1, i + Len(sub)) = sub

Least(S) == CHOOSE i \in S : \A j \in S : i <= j
Greatest(S) == CHOOSE i \in S : \A j \in S : j <= i

\* getattr(c, "id", ""): AgentCard declares no id
CardId(c) == ""

\* next((c for c in cards if ...), None): <<>> for None
FirstCard(cs, hits) == IF hits = {} THEN <<>> ELSE <<cs[Least(hits)]>>

ExactMatch(c, agent_name) ==
    \/ Lower(c.name) = Lower(agent_name)
    \/ Lower(CardId(c)) = Lower(agent_name)

SubstringMatch(c, agent_name) == Contains(Lower(agent_name), Lower(c.name))

\* (mutation: one pass that takes the first card matching at either level)
MatchedAnyLevel(cs, agent_name) ==
    FirstCard(cs, {i \in 1..Len(cs) :
                      ExactMatch(cs[i], agent_name) \/ SubstringMatch(cs[i], agent_name)})

\* `matched` after the two passes of call_agent
Matched(cs, agent_name) ==
    LET first == FirstCard(cs, {i \in 1..Len(cs) : ExactMatch(cs[i], agent_name)})
    IN  IF first # <<>> THEN first
        ELSE FirstCard(cs, {i \in 1..Len(cs) : SubstringMatch(cs[i], agent_name)})

DelegationStarted(d) == IF d = 1 THEN TRUE ELSE rpc[d - 1] # "idle"

\* the reasoner calls the tool; the call awaits list_agent_cards
CallAgent(d, agent_name) ==
    /\ rpc[d] = "idle"
    /\ DelegationStarted(d)
    /\ rpc' = [rpc EXCEPT ![d] = "discovering"]
    /\ req' = [req EXCEPT ![d] = agent_name]
    /\ UNCHANGED <<served, matched, used, connectors>>
    /\ UNCHANGED <<storeVars, discoveryVars, orchestratorVars, restVars>>

\* (mutation: the error comes after a send_task to a connector for the asked name)
RaiseNotFoundAfterSending(d) ==
    /\ rpc' = [rpc EXCEPT ![d] = "failed"]
    /\ matched' = [matched EXCEPT ![d] = <<>>]
    /\ used' = [used EXCEPT ![d] =
                   <<Connector(d, [name |-> req[d], url |-> "u0"], "GreetingAgent")>>]
    /\ UNCHANGED connectors

\* raise ValueError(f"Agent '{agent_name}' not found.")
RaiseNotFound(d) ==
    /\ rpc' = [rpc EXCEPT ![d] = "failed"]
    /\ matched' = [matched EXCEPT ![d] = <<>>]
    /\ UNCHANGED <<connectors, used>>

\* (mutation: a connector is made for every delegation)
NeedsConnectorAlways(key) == TRUE

\* key not in self.connectors
NeedsConnector(key) == connectors[key] = <<>>

\* list_agent_cards returns: resolve the name, get the connector, await send_task
DiscoveryReturns(d) ==
    /\ rpc[d] = "discovering"
    /\ LET m == Matched(served, req[d]) IN
       IF m = <<>>
       THEN RaiseNotFound(d)
       ELSE LET key == m[1].name
                cached == IF NeedsConnector(key)
                          THEN [connectors EXCEPT ![key] =
                                   <<Connector(d, m[1], "GreetingAgent")>>]
                          ELSE connectors
            IN  /\ matched' = [matched EXCEPT ![d] = m]
                /\ connectors' = cached
                /\ used' = [used EXCEPT ![d] = cached[key]]
                /\ rpc' = [rpc EXCEPT ![d] = "sending"]
    /\ UNCHANGED <<served, req>>
    /\ UNCHANGED <<storeVars, discoveryVars, orchestratorVars, restVars>>

\* connector.send_task returns a task or raises: call_agent ends, its locals go
SendEnds(d) ==
    /\ rpc[d] = "sending"
    /\ rpc' = [rpc EXCEPT ![d] = "done"]
    /\ req' = [req EXCEPT ![d] = ""]
    /\ matched' = [matched EXCEPT ![d] = <<>>]
    /\ used' = [used EXCEPT ![d] = <<>>]
    /\ UNCHANGED <<served, connectors>>
    /\ UNCHANGED <<storeVars, discoveryVars, orchestratorVars, restVars>>

\* the first peer of the list stops answering: later sweeps skip it
PeerLeaves ==
    /\ served # <<>>
    /\ served' = Tail(served)
    /\ UNCHANGED <<rpc, req, matched, used, connectors>>
    /\ UNCHANGED <<storeVars, discoveryVars, orchestratorVars, restVars>>

InitRouter ==
    /\ StoreUnused
    /\ RestUnused
    /\ DiscoveryUnused
    /\ OrchestratorUnused
    /\ served \in CardLists
    /\ rpc = [d \in Delegations |-> "idle"]
    /\ req = [d \in Delegations |-> ""]
    /\ matched = [d \in Delegations |-> <<>>]
    /\ used = [d \in Delegations |-> <<>>]
    /\ connectors = [n \in CardNameSet |-> <<>>]

NextRouter ==
    \/ \E d \in Delegations, agent_name \in RequestedNames : CallAgent(d, agent_name)
    \/ \E d \in Delegations : DiscoveryReturns(d)
    \/ \E d \in Delegations : SendEnds(d)
    \/ PeerLeaves

SpecRouter == InitRouter /\ [][NextRouter]_vars

\* the step in which call_agent's name resolution happens
Resolves(d) == rpc[d] = "discovering" /\ rpc'[d] # "discovering"

ExactIn(cs, agent_name) ==
    {i \in 1..Len(cs) : Lower(cs[i].name) = Lower(agent_name)}
SubstringIn(cs, agent_name) ==
    {i \in 1..Len(cs) : Contains(Lower(agent_name), Lower(cs[i].name))}

ExampleCards ==
    <<[name |-> "TellTimeAgent", url |-> "u1"], [name |-> "GreetingAgent", url |-> "u2"]>>

\* C17: the earliest card whose name equals the requested name ignoring case is
\* chosen, whatever precedes it; only when there is none, the earliest card
\* whose name contains the requested name ignoring case; and with the cards
\* [TellTimeAgent, GreetingAgent] both "telltimeagent" and "time" give the first.
C17_ResolutionByLevelThenOrder ==
    [][\A d \in Delegations : Resolves(d) =>
        LET exact == ExactIn(served, req[d])
            sub == SubstringIn(served, req[d])
        IN  /\ exact # {} => matched'[d] = <<served[Least(exact)]>>
            /\ (exact = {} /\ sub # {}) => matched'[d] = <<served[Least(sub)]>>
            /\ (served = ExampleCards /\ req[d] \in {"telltimeagent", "time"}) =>
                   matched'[d] = <<ExampleCards[1]>>]_vars

\* "time" was resolved to the card named Time although TellTimeAgent precedes it
C17_Witness ==
    \E d \in Delegations :
        /\ served = <<[name |-> "TellTimeAgent", url |-> "u1"], [name |-> "Time", url |-> "u3"]>>
        /\ req[d] = "time"
        /\ matched[d] = <<[name |-> "Time", url |-> "u3"]>>

\* C18: when no card matches at either level, call_agent ends with the
\* not-found error, the connector cache is what it was and no send_task is made.
C18_NotFoundTouchesNothing ==
    [][\A d \in Delegations :
        (Resolves(d) /\ ExactIn(served, req[d]) = {} /\ SubstringIn(served, req[d]) = {}) =>
            /\ rpc'[d] = "failed"
            /\ connectors' = connectors
            /\ used' = used
            /\ used'[d] = <<>>
            /\ matched'[d] = <<>>]_vars

\* a name was not found among cards that were there, after a connector was cached
C18_Witness ==
    \E d \in Delegations :
        /\ rpc[d] = "failed"
        /\ served # <<>>
        /\ \E n \in CardNameSet : connectors[n] # <<>>

\* C20: a cached connector is never replaced or removed, so at most one is ever
\* made per resolved name, and a delegation resolved to a name awaits the
\* send_task of the connector cached under that name.
C20_OneConnectorPerName ==
    [][/\ \A n \in CardNameSet : connectors[n] # <<>> => connectors'[n] = connectors[n]
       /\ \A d \in Delegations : matched'[d] # <<>> =>
              /\ used'[d] = connectors'[matched'[d][1].name]
              /\ used'[d] # <<>>
              /\ used'[d][1].name = matched'[d][1].name]_vars

\* a later delegation resolved to another card of the same name and reused the
\* connector the first one made
C20_Witness ==
    /\ used[1] # <<>>
    /\ used[2] = used[1]
    /\ used[1][1].by = 1
    /\ matched[2] # matched[1]
    /\ matched[2] # <<>>


\* ------------------------- OrchestratorAgent._delegate_task (orchestrator.py)
\* {card.name: AgentConnector(card.name, card.url, ...) for card in agent_cards}:
\* of several cards of one name the last one stays
BuildConnectors(cs) ==
    [n \in CardNameSet |->
        LET at == {i \in 1..Len(cs) : cs[i].name = n}
        IN  IF at = {} THEN <<>>
            ELSE <<Connector(0, cs[Greatest(at)], "orchestrator_agent")>>]

\* agent_name in self.connectors
Known(agent_name) ==
    IF agent_name \in CardNameSet THEN oconnectors[agent_name] # <<>> ELSE FALSE

OrchestratorStarted(d) == IF d = 1 THEN TRUE ELSE opc[d - 1] # "idle"

\* (mutation: every delegation makes a session id of its own)
SessionFresh(d) == <<"session", d>>

\* state["session_id"], set to str(uuid.uuid4()) when the state has none
SessionFor(d) == IF osession = <<>> THEN <<"session", d>> ELSE osession[1]

\* _delegate_task up to its await: unknown name raises, else the session id of
\* the tool context is made on first use and send_task is awaited
DelegateTask(d, agent_name) ==
    /\ opc[d] = "idle"
    /\ OrchestratorStarted(d)
    /\ oreq' = [oreq EXCEPT ![d] = agent_name]
    /\ IF ~Known(agent_name)
       THEN /\ opc' = [opc EXCEPT ![d] = "failed"]
            /\ UNCHANGED <<oused, osession>>
       ELSE LET session == <<SessionFor(d)>>
            IN  /\ osession' = session
                /\ oused' = [oused EXCEPT ![d] =
                                <<[connector |-> oconnectors[agent_name][1],
                                   session_id |-> session[1]]>>]
                /\ opc' = [opc EXCEPT ![d] = "sending"]
    /\ UNCHANGED <<agent_cards, oconnectors>>
    /\ UNCHANGED <<storeVars, discoveryVars, routerVars, restVars>>

\* connector.send_task returns: _delegate_task returns the reply's text
DelegateEnds(d) ==
    /\ opc[d] = "sending"
    /\ opc' = [opc EXCEPT ![d] = "done"]
    /\ UNCHANGED <<agent_cards, oconnectors, oreq, oused, osession>>
    /\ UNCHANGED <<storeVars, discoveryVars, routerVars, restVars>>

\* (mutation: a failed send_task is sent once more)
DelegateFailsRetries(d) ==
    /\ opc[d] = "sending"
    /\ opc' = [opc EXCEPT ![d] = IF Len(oused[d]) < 2 THEN "sending" ELSE "raised"]
    /\ oused' = [oused EXCEPT ![d] = IF Len(@) < 2 THEN Append(@, @[1]) ELSE @]
    /\ UNCHANGED <<agent_cards, oconnectors, oreq, osession>>
    /\ UNCHANGED <<storeVars, discoveryVars, routerVars, restVars>>

\* connector.send_task raises: nothing catches, _delegate_task raises
DelegateFails(d) ==
    /\ opc[d] = "sending"
    /\ opc' = [opc EXCEPT ![d] = "raised"]
    /\ UNCHANGED <<agent_cards, oconnectors, oreq, oused, osession>>
    /\ UNCHANGED <<storeVars, discoveryVars, routerVars, restVars>>

\* OrchestratorAgent.__init__(agent_cards)
InitOrchestrator ==
    /\ StoreUnused
    /\ RestUnused
    /\ DiscoveryUnused
    /\ RouterUnused
    /\ agent_cards \in CardLists
    /\ oconnectors = BuildConnectors(agent_cards)
    /\ opc = [d \in Delegations |-> "idle"]
    /\ oreq = [d \in Delegations |-> ""]
    /\ oused = [d \in Delegations |-> <<>>]
    /\ osession = <<>>

\* the agent_name arguments the orchestrator's LLM passes
DelegatedNames == RequestedNames \cup {"GreetingAgent"}

NextOrchestrator ==
    \/ \E d \in Delegations, agent_name \in DelegatedNames : DelegateTask(d, agent_name)
    \/ \E d \in Delegations : DelegateEnds(d)
    \/ \E d \in Delegations : DelegateFails(d)

SpecOrchestrator == InitOrchestrator /\ [][NextOrchestrator]_vars

\* the names _root_instruction and _list_agents show: list(self.connectors.keys())
KnownNames == {n \in CardNameSet : oconnectors[n] # <<>>}

\* C19: a delegation whose agent name equals a known agent's name ignoring
\* case, or is contained in it ignoring case, is not rejected as unknown.
C19_DelegateResolvesLoosely ==
    \A d \in Delegations :
        (\E n \in KnownNames : Lower(n) = Lower(oreq[d]) \/ Contains(Lower(oreq[d]), Lower(n)))
            => opc[d] # "failed"

\* the calls that are inside one of the three locked sections of the store
InStore == {p \in Calls : InCritical(p)}

\* C22: at most one call at a time is inside upsert_task's read-modify-write,
\* the reply-and-complete step or on_get_task's copy, whatever the task ids,
\* and the one that is inside holds the store's lock.
C22_StoreAccessExclusive ==
    /\ Cardinality(InStore) <= 1
    /\ InStore # {} => lock
    /\ lock => InStore # {}

\* a call is inside upsert_task while a get and a reply on other ids wait
C22_Witness ==
    \E p, q \in Calls :
        /\ pc[p] = "u_write"
        /\ pc[q] \in {"g_acq", "r_acq"}
        /\ call[q].id # call[p].id

\* h is an initial part of g
IsPrefix(h, g) == Len(h) <= Len(g) /\ SubSeq(g, 1, Len(h)) = h

\* C23: in every step a stored task stays stored as the same task, and its
\* history before the step is an initial part of its history after the step.
C23_HistoryAppendOnly ==
    [][\A t \in TaskIds :
          Stored(t) =>
              /\ tasks'[t] = tasks[t]
              /\ IsPrefix(StoredHistory(t), StoredHistory(t)')]_vars

\* a get with historyLength 1 returned one message of a longer stored history
C23_Witness ==
    \E p \in Calls :
        /\ GetHitReturned(p)
        /\ call[p].historyLength = <<1>>
        /\ Len(HistoryOf(ret[p][1].result)) = 1
        /\ Len(StoredHistory(call[p].id)) >= 2

\* C24: every task in the store has a history that is not empty and begins
\* with the message of the upsert_task call that created the task.
C24_HistoryStartsWithCreator ==
    \A t \in TaskIds :
        Stored(t) =>
            /\ Len(StoredHistory(t)) >= 1
            /\ StoredHistory(t)[1] = MessageOf(tasks[t])

\* a task created by the later of two calls on its id, got a second message
C24_Witness ==
    \E t \in TaskIds :
        /\ Stored(t)
        /\ Len(callLog[t]) = 2
        /\ tasks[t] = callLog[t][2]
        /\ Len(StoredHistory(t)) = 2

\* the history in the response on_send_task of p returned
ReturnedHistory(p) == resp[p][1].result[1].history

\* C28: when every call on an id is an on_send_task whose reasoner returned and
\* all of them have returned, whatever their interleaving, the history has two
\* entries per call: each call's user message once, each call's reply once at a
\* place of its own after that call's user message, and the task is completed.
C28_AllSendsAccounted ==
    \A t \in TaskIds :
        LET S == UpsertCallers(t)
            h == StoredHistory(t)
        IN  (S # {} /\ \A p \in S : SendReturned(p)) =>
                /\ Len(h) = 2 * Cardinality(S)
                /\ Len(SelectSeq(h, IsAgent)) = Cardinality(S)
                /\ Obj(tasks[t]).state = COMPLETED
                /\ \A p \in S :
                       LET k == Len(ReturnedHistory(p)) IN
                       /\ Occurrences(h, MessageOf(p)) =
                              Cardinality({q \in S : MessageOf(q) = MessageOf(p)})
                       /\ IsPrefix(ReturnedHistory(p), h)
                       /\ h[k] = ReplyOf(p)
                       /\ \E i \in 1..(k - 1) : h[i] = MessageOf(p)
                       /\ \A q \in S \ {p} : Len(ReturnedHistory(q)) # k

\* two on_send_task calls on one id have returned and both user messages
\* precede both replies
C28_Witness ==
    \E t \in TaskIds :
        /\ Len(callLog[t]) = 2
        /\ \A p \in UpsertCallers(t) : SendReturned(p)
        /\ Len(StoredHistory(t)) = 4
        /\ IsUser(StoredHistory(t)[2])

\* C30: when only on_send_task calls touch an id then, outside the reply step
\* itself, its task if completed ends with an agent message: no completed task
\* has a user message waiting for its reply.
C30_CompletedEndsWithReply ==
    \A t \in TaskIds :
        (/\ Stored(t)
         /\ \A p \in UpsertCallers(t) : IsSend(p)
         /\ Obj(tasks[t]).state = COMPLETED
         /\ \A p \in Calls : pc[p] # "r_append") =>
            IsAgent(StoredHistory(t)[Len(StoredHistory(t))])

\* ------------------------------------------------------ fair scheduling
\* the event loop runs every coroutine that can go on; asyncio.Lock wakes its
\* waiters in turn; nothing is assumed of the reasoner or of new calls
Fairness ==
    \A p \in Calls :
        /\ SF_vars(UpsertAcquire(p))
        /\ SF_vars(GetAcquire(p))
        /\ SF_vars(ReplyAcquire(p))
        /\ WF_vars(UpsertWrite(p))
        /\ WF_vars(GetBody(p))
        /\ WF_vars(ReplySetStatus(p))
        /\ WF_vars(ReplyAppend(p))

\* the calls of the fair runs: one task id, one message, the whole history;
\* the lock does not look at any of them
NextFair ==
    \E p \in Calls :
        \/ StartUpsert(p, "t1", <<"hi">>)
        \/ StartGet(p, "t1", None)
        \/ HandleRequest(p, [NoCall EXCEPT !.kind = "post", !.shape = "send",
                                            !.id = "t1", !.parts = <<"hi">>])
        \/ UpsertAcquire(p)
        \/ UpsertWrite(p)
        \/ GetAcquire(p)
        \/ GetBody(p)
        \/ \E text \in ReplyTexts : InvokeReturns(p, text)
        \/ \E failure \in Failures : InvokeRaises(p, failure)
        \/ ReplyAcquire(p)
        \/ ReplySetStatus(p)
        \/ ReplyAppend(p)

SpecFair == Init /\ [][NextFair]_vars /\ Fairness

\* C29: no call waiting on its reasoner holds the lock; every upsert_task and
\* on_get_task gets through the store whether or not any reasoner ever returns;
\* every on_send_task whose reasoner returned returns.
C29_NoDeadlock ==
    /\ [](\A p \in Calls : pc[p] = "invoke" => (lock => \E q \in Calls \ {p} : InCritical(q)))
    /\ \A p \in Calls : (pc[p] \in {"u_acq", "g_acq"}) ~> (pc[p] \in {"invoke", "done"})
    /\ \A p \in Calls : (pc[p] = "r_acq") ~> (pc[p] = "done")

\* while a call waits on its reasoner, an on_send_task made later on the same
\* id has returned, and so has nothing else
C29_Witness ==
    \E p, q \in Calls :
        /\ p < q
        /\ pc[p] = "invoke"
        /\ SendReturned(q)
        /\ call[q].id = call[p].id

\* C21: the session id of a tool-context state, once assigned by the first
\* delegation, is never assigned again, and every send_task awaited by a
\* delegation of that conversation is given that id, whichever agent it goes to.
C21_OneSessionPerConversation ==
    [][/\ osession # <<>> => osession' = osession
       /\ \A d \in Delegations :
              oused'[d] # <<>> =>
                  /\ osession' # <<>>
                  /\ oused'[d][1].session_id = osession'[1]]_vars

\* two delegations to different agents were given the id the first one made
C21_Witness ==
    /\ oused[1] # <<>> /\ oused[2] # <<>>
    /\ oused[1][1].connector.name # oused[2][1].connector.name
    /\ oused[1][1].session_id = <<"session", 1>>
    /\ oused[2][1].session_id = <<"session", 1>>

\* ---------------------- a host that sweeps the registry and delegates tasks
\* the registry lists one peer up to MaxRegistry times; the orchestrator knows
\* two agents
InitHost ==
    /\ StoreUnused
    /\ RestUnused
    /\ RouterUnused
    /\ source \in {[state |-> "json", list |-> TRUE, items |-> [i \in 1..n |-> <<"a">>]] :
                      n \in 0..MaxRegistry}
    /\ dpc = "new"
    /\ base_urls = <<>>
    /\ sweeps = 0
    /\ cursor = 0
    /\ cards = <<>>
    /\ fetchLog = <<>>
    /\ listed = <<>>
    /\ agent_cards = ExampleCards
    /\ oconnectors = BuildConnectors(ExampleCards)
    /\ opc = [d \in Delegations |-> "idle"]
    /\ oreq = [d \in Delegations |-> ""]
    /\ oused = [d \in Delegations |-> <<>>]
    /\ osession = <<>>

NextHost ==
    \/ Construct
    \/ StartSweep
    \/ FetchSucceeds("A")
    \/ FetchFails("timeout")
    \/ SweepReturns
    \/ \E d \in Delegations, agent_name \in {"TellTimeAgent", "Weather"} :
           DelegateTask(d, agent_name)
    \/ \E d \in Delegations : DelegateEnds(d)
    \/ \E d \in Delegations : DelegateFails(d)

SpecHost == InitHost /\ [][NextHost]_vars

\* C27: in a sweep the k-th GET is that of the k-th registry entry, so every
\* entry is fetched once, failed or not; a delegation awaits at most one
\* send_task, and once that has failed the delegation has ended for good.
C27_NothingRetried ==
    [][/\ dpc' \in {"sweeping", "returned"} =>
              /\ Len(fetchLog') = cursor' - 1
              /\ cursor' - 1 <= Len(base_urls')
              /\ \A i \in 1..Len(fetchLog') : fetchLog'[i].url = WellKnown(base_urls'[i])
       /\ dpc' = "returned" => Len(fetchLog') = Len(base_urls')
       /\ \A d \in Delegations :
              /\ Len(oused'[d]) <= 1
              /\ opc[d] \in {"raised", "failed", "done"} =>
                     /\ opc'[d] = opc[d]
                     /\ oused'[d] = oused[d]]_vars

\* a sweep skipped a failing entry without a second GET, and a delegation's
\* one send_task failed
C27_Witness ==
    /\ dpc = "returned"
    /\ Len(base_urls) = 2
    /\ fetchLog[1].outcome # "ok"
    /\ \E d \in Delegations : opc[d] = "raised" /\ Len(oused[d]) = 1

\* ------------------------------------------- RpcLogger (rpc_logger.py)
LogSenders == {"orchestrator_agent", "GreetingAgent"}
LogReceivers == CardNameSet
LogDirections == {"send", "receive"}

\* what os.makedirs and open can find
InitLogger ==
    /\ StoreUnused
    /\ DiscoveryUnused
    /\ RouterUnused
    /\ OrchestratorUnused
    /\ ClientUnused
    /\ logDir \in {"absent", "present", "denied"}
    /\ logFile \in {"writable", "denied"}
    /\ logLines = <<>>
    /\ lastLog = "none"

\* the entry log_interaction writes (the timestamp and the payload left out)
LogEntry(sender, receiver, direction) ==
    [sender |-> sender, receiver |-> receiver, direction |-> direction]

\* log_interaction: os.makedirs(exist_ok=True), open(LOG_FILE, "a"), f.write;
\* the function has no try: what a step raises reaches the caller
LogInteraction(sender, receiver, direction) ==
    /\ Len(logLines) < MaxLogCalls
    /\ IF logDir = "denied"
       THEN /\ lastLog' = "OSError"
            /\ UNCHANGED <<logDir, logLines>>
       ELSE /\ logDir' = "present"
            /\ IF logFile = "denied"
               THEN /\ lastLog' = "OSError"
                    /\ UNCHANGED logLines
               ELSE /\ logLines' = Append(logLines, LogEntry(sender, receiver, direction))
                    /\ lastLog' = "written"
    /\ UNCHANGED logFile
    /\ UNCHANGED <<storeVars, discoveryVars, routerVars, orchestratorVars, clientVars>>

\* the disk fills up or the file's permissions are taken away
LogFileDenied ==
    /\ logFile = "writable"
    /\ logFile' = "denied"
    /\ UNCHANGED <<logDir, logLines, lastLog>>
    /\ UNCHANGED <<storeVars, discoveryVars, routerVars, orchestratorVars, clientVars>>

NextLogger ==
    \/ \E sender \in LogSenders, receiver \in LogReceivers, direction \in LogDirections :
           LogInteraction(sender, receiver, direction)
    \/ LogFileDenied

SpecLogger == InitLogger /\ [][NextLogger]_vars

\* C25: no call of log_interaction ends with an error at its caller: it ends
\* with the record written, or with the failure swallowed.
C25_LoggingNeverRaises == lastLog \in {"none", "written"}

\* ------------------------------------------------- A2AClient (client.py)
\* what the POST can come to
HttpOutcomes ==
    {"connect error", "timeout", "status error", "body not json",
     "json without result", "result not a task", "result task"}

\* what send_task / get_task end with for an outcome of the POST: only
\* httpx.HTTPStatusError and json.JSONDecodeError are caught and renamed
ClientResult(http) ==
    CASE http = "connect error" -> [raised |-> TRUE, value |-> "httpx.ConnectError"]
      [] http = "timeout" -> [raised |-> TRUE, value |-> "httpx.ReadTimeout"]
      [] http = "status error" -> [raised |-> TRUE, value |-> "A2AClientHTTPError"]
      [] http = "body not json" -> [raised |-> TRUE, value |-> "A2AClientJSONError"]
      [] http = "json without result" -> [raised |-> TRUE, value |-> "KeyError"]
      [] http = "result not a task" -> [raised |-> TRUE, value |-> "ValidationError"]
      [] http = "result task" -> [raised |-> FALSE, value |-> "Task"]

RequestStarted(r) == IF r = 1 THEN TRUE ELSE cpc[r - 1] # "idle"

\* send_task / get_task up to `await client.post(...)`
ClientCall(r, kind) ==
    /\ cpc[r] = "idle"
    /\ RequestStarted(r)
    /\ cpc' = [cpc EXCEPT ![r] = "posting"]
    /\ creq' = [creq EXCEPT ![r] = kind]
    /\ UNCHANGED cres
    /\ UNCHANGED <<storeVars, discoveryVars, routerVars, orchestratorVars, loggerVars>>

\* the POST ends: raise_for_status, response.json(), Task(**response["result"])
PostEnds(r, http) ==
    /\ cpc[r] = "posting"
    /\ cpc' = [cpc EXCEPT ![r] = "done"]
    /\ cres' = [cres EXCEPT ![r] = <<ClientResult(http) @@ [http |-> http]>>]
    /\ UNCHANGED creq
    /\ UNCHANGED <<storeVars, discoveryVars, routerVars, orchestratorVars, loggerVars>>

InitClient ==
    /\ StoreUnused
    /\ DiscoveryUnused
    /\ RouterUnused
    /\ OrchestratorUnused
    /\ LoggerUnused
    /\ cpc = [r \in Requests |-> "idle"]
    /\ creq = [r \in Requests |-> "none"]
    /\ cres = [r \in Requests |-> <<>>]

NextClient ==
    \/ \E r \in Requests, kind \in {"send_task", "get_task"} : ClientCall(r, kind)
    \/ \E r \in Requests, http \in HttpOutcomes : PostEnds(r, http)

SpecClient == InitClient /\ [][NextClient]_vars

\* C26: a call that fails at the HTTP level (connection, timeout, status)
\* ends with the transport error, one whose response is no valid envelope ends
\* with the protocol error, and no other exception leaves send_task or get_task.
C26_OnlyTypedErrors ==
    \A r \in Requests :
        cres[r] # <<>> =>
            LET res == cres[r][1] IN
            /\ res.http \in {"connect error", "timeout", "status error"} =>
                   res.raised /\ res.value = "A2AClientHTTPError"
            /\ res.http \in {"body not json", "json without result"} =>
                   res.raised /\ res.value = "A2AClientJSONError"
            /\ res.raised => res.value \in {"A2AClientHTTPError", "A2AClientJSONError"}

\* ------------------------------------------------------------------- C31
\* on_send_task of p ended in a failure after its upsert_task returned: the
\* reasoner raised, or the message had no parts for _get_user_text
SendFailed(p) == IsSend(p) /\ pc[p] = "done" /\ resp[p][1].status = 400

\* the step in which the on_send_task of p fails
SendFails(p) ==
    /\ call[p].kind = "post" /\ call[p].shape = "send"
    /\ pc[p] \in {"u_write", "invoke"}
    /\ pc'[p] = "done"
    /\ resp'[p][1].status = 400

\* C31: on_send_task does not roll back. (a) After a failed call the task is
\* still stored, as the one Task every returned upsert on the id was given, and
\* its history holds one user message per returned upsert, the failed call's
\* among them; a task the failed call created is 'submitted' until some call
\* completes it. (b) The failing step itself leaves the map, the status and the
\* history as the call's upsert made them: a raising reasoner changes nothing,
\* and a message without parts fails with its user message appended (or alone
\* in the new task) and the status not touched.
C31_NoRollbackOnFailure ==
    /\ [](\A p \in Calls :
            SendFailed(p) =>
                LET t == call[p].id
                    returned == {q \in UpsertCallers(t) : UpsertReturned(q)}
                IN  /\ Stored(t)
                    /\ task[p] = tasks[t]
                    /\ \A q \in returned : task[q] = tasks[t]
                    /\ Len(SelectSeq(StoredHistory(t), IsUser)) = Cardinality(returned)
                    /\ Occurrences(StoredHistory(t), MessageOf(p)) =
                           Cardinality({q \in returned : MessageOf(q) = MessageOf(p)})
                    /\ (tasks[t] = p /\ ~\E q \in Calls : call[q].id = t /\ Completed(q))
                           => Obj(tasks[t]).state = SUBMITTED)
    /\ [][\A p \in Calls :
            SendFails(p) =>
                LET t == call[p].id IN
                IF pc[p] = "invoke"
                THEN /\ tasks' = tasks
                     /\ objs' = objs
                     /\ lists' = lists
                ELSE /\ tasks'[t] = task'[p]
                     /\ IF task[p] = NoRef
                        THEN LET created == objs'[tasks'[t]][1] IN
                             /\ created.id = t
                             /\ created.state = SUBMITTED
                             /\ lists'[created.history][1] = <<MessageOf(p)>>
                        ELSE /\ tasks' = tasks
                             /\ objs' = objs
                             /\ HistoryOf(task[p])' =
                                    Append(HistoryOf(task[p]), MessageOf(p))]_vars

\* a call that created the task failed for want of parts, and a later
\* on_send_task on the same id returned with its messages appended to that task
C31_Witness ==
    \E p, q \in Calls :
        /\ p # q
        /\ SendFailed(p) /\ call[p].parts = <<>>
        /\ tasks[call[p].id] = p
        /\ SendReturned(q) /\ call[q].id = call[p].id
        /\ task[q] = p
        /\ StoredHistory(call[p].id) = <<MessageOf(p), MessageOf(q), ReplyOf(q)>>

\* ------------------------------------------------------------------- C32
\* historyLength values asked of on_get_task: absent, zero, and positive up to
\* more than any history of these calls holds after one on_send_task
MaxRequestedLength == 3
RequestedLengths == {None} \cup {<<n>> : n \in 0..MaxRequestedLength}

\* the store under reads of every historyLength, with one message text
NextRead ==
    \E p \in Calls :
        \/ \E t \in TaskIds : StartUpsert(p, t, <<"hi">>)
        \/ \E t \in TaskIds, n \in RequestedLengths : StartGet(p, t, n)
        \/ \E t \in TaskIds :
              HandleRequest(p, [NoCall EXCEPT !.kind = "post", !.shape = "send",
                                              !.id = t, !.parts = <<"hi">>])
        \/ UpsertAcquire(p)
        \/ UpsertWrite(p)
        \/ GetAcquire(p)
        \/ GetBody(p)
        \/ \E text \in ReplyTexts : InvokeReturns(p, text)
        \/ \E failure \in Failures : InvokeRaises(p, failure)
        \/ ReplyAcquire(p)
        \/ ReplySetStatus(p)
        \/ ReplyAppend(p)

SpecRead == Init /\ [][NextRead]_vars

\* a step of the on_get_task call of p
GetSteps(p) == call'[p].kind = "get" /\ pc'[p] # pc[p]

\* C32: on_get_task is read-only on the store. Every step of an on_get_task
\* call, for every id and every historyLength, leaves the task map as it was
\* and leaves the id, status and history of every stored task as they were;
\* when the call returns a task, the returned copy holds history[-n:] of the
\* stored history (all of it when historyLength is absent), under the same
\* id and status.
C32_GetIsReadOnly ==
    [][\A p \in Calls :
          GetSteps(p) =>
              /\ tasks' = tasks
              /\ \A t \in TaskIds : Stored(t) => Dump(tasks[t])' = Dump(tasks[t])
              /\ (pc'[p] = "done" /\ Stored(call[p].id)) =>
                     LET stored == Dump(tasks[call[p].id])
                         n == call[p].historyLength
                     IN  Dump(p)' =
                             [stored EXCEPT !.history =
                                 IF n = None THEN @ ELSE SliceFrom(@, -n[1])]]_vars

\* on_get_task returned a copy shorter than the stored history, which is as
\* the call found it
C32_Witness ==
    \E p \in Calls :
        /\ GetHitReturned(p)
        /\ call[p].historyLength = <<1>>
        /\ Len(HistoryOf(p)) = 1
        /\ Len(StoredHistory(call[p].id)) = 2
        /\ Dump(tasks[call[p].id]) = seen[p][1]

====
